---- MODULE Spec2Model ----
(***************************************************************************)
(* Model of clouwayapis/rpc/httpkit/errors.go (ErrorEncoder, HttpError,    *)
(* NewBadRequestError, httpStatusFromCode) and of                          *)
(* clouwayapis/rpc/grpckit/grpc.go (MetadataToContext).                    *)
(*                                                                         *)
(* Strings that are formatted or JSON-encoded are sequences of one-letter  *)
(* strings; a response body is the sequence of the tokens written.         *)
(***************************************************************************)
EXTENDS Integers, Sequences, FiniteSets, TLC

VARIABLES
    pc,          \* position of the ErrorEncoder invocation
    err,         \* the error value handed to ErrorEncoder
    pending,     \* keys of headerer.Headers() the range loop has not visited
    wHeader,     \* w.Header(): canonical key -> list of values
    code,        \* local variable code
    body,        \* local variable body
    sent,        \* what the sink received: status, headers at WriteHeader, body
    log,         \* calls made on the sink, in order
    mdpc,        \* position of the MetadataToContext invocation
    md,          \* the metadata.MD argument
    mdPending,   \* keys of md the range loop has not visited
    ctx0,        \* the ctx argument
    ctx,         \* the context: chain of <<key, value>> pairs, newest last
    arg,         \* last argument given to httpStatusFromCode (-1: none)
    ret          \* its result

encVars == <<pc, err, pending, wHeader, code, body, sent, log>>
mdVars == <<mdpc, md, mdPending, ctx0, ctx>>
codeVars == <<arg, ret>>
vars == <<pc, err, pending, wHeader, code, body, sent, log, mdpc, md, mdPending, ctx0, ctx, arg, ret>>

(***************************************************************************)
(* Bounds of the model.                                                    *)
(***************************************************************************)
\* httpStatusFromCode is applied to every code in 0..MaxCode and to 2^31-1.
MaxCode == 127
\* status errors given to ErrorEncoder carry a code in 0..MaxErrCode.
MaxErrCode == 17
\* a status error carries at most MaxDetails detail payloads.
MaxDetails == 2
\* a metadata key maps to at most MaxMDVals values.
MaxMDVals == 2
\* an error's header set holds at most MaxHeaderKeys keys.
MaxHeaderKeys == 2

(***************************************************************************)
(* google.golang.org/grpc/codes and net/http status constants, as used.    *)
(***************************************************************************)
OK == 0
Canceled == 1
Unknown == 2
InvalidArgument == 3
DeadlineExceeded == 4
NotFound == 5
AlreadyExists == 6
PermissionDenied == 7
ResourceExhausted == 8
FailedPrecondition == 9
Aborted == 10
OutOfRange == 11
Unimplemented == 12
Internal == 13
Unavailable == 14
DataLoss == 15
Unauthenticated == 16

StatusOK == 200
StatusBadRequest == 400
StatusUnauthorized == 401
StatusForbidden == 403
StatusNotFound == 404
StatusRequestTimeout == 408
StatusConflict == 409
StatusTooManyRequests == 429
StatusInternalServerError == 500
StatusNotImplemented == 501
StatusServiceUnavailable == 503
StatusGatewayTimeout == 504

JSONContentType == "application/json; charset=utf-8"

(***************************************************************************)
(* httpStatusFromCode                                                      *)
(***************************************************************************)
httpStatusFromCode_412(c) ==
    CASE c = OK -> StatusOK
      [] c = Canceled -> StatusRequestTimeout
      [] c = Unknown -> StatusInternalServerError
      [] c = InvalidArgument -> StatusBadRequest
      [] c = DeadlineExceeded -> StatusGatewayTimeout
      [] c = NotFound -> StatusNotFound
      [] c = AlreadyExists -> StatusConflict
      [] c = PermissionDenied -> StatusForbidden
      [] c = Unauthenticated -> StatusUnauthorized
      [] c = ResourceExhausted -> StatusTooManyRequests
      [] c = FailedPrecondition -> 412
      [] c = Aborted -> StatusConflict
      [] c = OutOfRange -> StatusBadRequest
      [] c = Unimplemented -> StatusNotImplemented
      [] c = Internal -> StatusInternalServerError
      [] c = Unavailable -> StatusServiceUnavailable
      [] c = DataLoss -> StatusInternalServerError
      [] OTHER -> StatusInternalServerError

httpStatusFromCode(c) ==
    CASE c = OK -> StatusOK
      [] c = Canceled -> StatusRequestTimeout
      [] c = Unknown -> StatusInternalServerError
      [] c = InvalidArgument -> StatusBadRequest
      [] c = DeadlineExceeded -> StatusGatewayTimeout
      [] c = NotFound -> StatusNotFound
      [] c = AlreadyExists -> StatusConflict
      [] c = PermissionDenied -> StatusForbidden
      [] c = Unauthenticated -> StatusUnauthorized
      [] c = ResourceExhausted -> StatusTooManyRequests
      [] c = FailedPrecondition -> StatusBadRequest
      [] c = Aborted -> StatusConflict
      [] c = OutOfRange -> StatusBadRequest
      [] c = Unimplemented -> StatusNotImplemented
      [] c = Internal -> StatusInternalServerError
      [] c = Unavailable -> StatusServiceUnavailable
      [] c = DataLoss -> StatusInternalServerError
      [] OTHER -> StatusInternalServerError

\* codes.Code is a uint32: the small codes and a large one
CodeSpace == (0..MaxCode) \cup {2147483647}

ApplyStatusFromCode(c) ==
    /\ arg' = c
    /\ ret' = httpStatusFromCode(c)
    /\ UNCHANGED <<encVars, mdVars>>

(***************************************************************************)
(* net/http.Header                                                         *)
(***************************************************************************)
HeaderKeys == {"X-Test", "x-test", "Content-Type", "content-type"}

\* textproto.CanonicalMIMEHeaderKey on the keys of the model
CanonicalMIMEHeaderKey(k) ==
    CASE k = "X-Test" -> "X-Test"
      [] k = "x-test" -> "X-Test"
      [] k = "Content-Type" -> "Content-Type"
      [] k = "content-type" -> "Content-Type"
      [] OTHER -> k

\* http.Header.Get: the first value stored under the canonical form of k, or ""
HeaderGet(h, k) ==
    LET c == CanonicalMIMEHeaderKey(k)
    IN  IF c \in DOMAIN h /\ Len(h[c]) > 0 THEN h[c][1] ELSE ""

\* http.Header.Set: the canonical form of k now holds the single value v
HeaderSet(h, k, v) ==
    LET c == CanonicalMIMEHeaderKey(k)
    IN  [x \in (DOMAIN h) \cup {c} |-> IF x = c THEN <<v>> ELSE h[x]]

NoHeader == [x \in {} |-> <<>>]

(***************************************************************************)
(* encoding/json, protojson and fmt, on sequences of letters               *)
(***************************************************************************)
\* encoding/json's escaping of one letter of a string (HTML escaping is on)
jsonEscape(c) ==
    CASE c = "\"" -> <<"\\", "\"">>
      [] c = "\\" -> <<"\\", "\\">>
      [] c = "<" -> <<"\\u003c">>
      [] OTHER -> <<c>>

RECURSIVE jsonEscapeAll(_)
jsonEscapeAll(s) ==
    IF s = <<>> THEN <<>> ELSE jsonEscape(Head(s)) \o jsonEscapeAll(Tail(s))

jsonString(s) == <<"\"">> \o jsonEscapeAll(s) \o <<"\"">>

\* json.Marshal(errorWrapper{Message: m})
jsonMarshalErrorWrapper(m) == <<"{", "\"message\"", ":">> \o jsonString(m) \o <<"}">>

\* json.Marshal(payload): a string payload is encoded, a channel is refused
jsonMarshal(p) ==
    IF p.kind = "string"
    THEN [ok |-> TRUE, bytes |-> jsonString(p.val)]
    ELSE [ok |-> FALSE, bytes |-> <<>>]

\* protojson.MarshalOptions.Marshal of a decoded detail message
protojsonMarshal(opts, m) ==
    IF m.marshals
    THEN [ok |-> TRUE,
          bytes |-> <<"{", "\"", (IF opts.UseProtoNames THEN m.protoName ELSE m.jsonName),
                      "\"", ":", "\"v\"", "}">>]
    ELSE [ok |-> FALSE, bytes |-> <<>>]

\* fmt.Sprintf with %s verbs: a verb takes the next argument, a verb without one
\* prints %!s(MISSING), unused arguments print %!(EXTRA ...)
RECURSIVE Sprintf(_, _)
Sprintf(format, a) ==
    IF format = <<>>
    THEN (IF a = <<>> THEN <<>> ELSE <<"%!(EXTRA)">>)
    ELSE IF Head(format) = "%s"
         THEN (IF a = <<>>
               THEN <<"%!s(MISSING)">> \o Sprintf(Tail(format), a)
               ELSE <<Head(a)>> \o Sprintf(Tail(format), Tail(a)))
         ELSE <<Head(format)>> \o Sprintf(Tail(format), a)

(***************************************************************************)
(* Error values: the capabilities ErrorEncoder asks an error for           *)
(***************************************************************************)
\* detail payloads as (*Status).Details() returns them: a decoded message, or
\* the decoding error in place of a detail that could not be decoded
GoodDetail == [kind |-> "message", protoName |-> "field_violations",
               jsonName |-> "fieldViolations", marshals |-> TRUE]
BadDetail == [kind |-> "message", protoName |-> "type_url",
              jsonName |-> "typeUrl", marshals |-> FALSE]
UndecodableDetail == [kind |-> "error", protoName |-> "", jsonName |-> "", marshals |-> FALSE]
DetailValues == {GoodDetail, BadDetail, UndecodableDetail}

RECURSIVE SeqsUpTo(_, _)
SeqsUpTo(S, n) ==
    IF n = 0 THEN {<<>>}
    ELSE LET shorter == SeqsUpTo(S, n - 1)
         IN  shorter \cup {Append(s, x) : s \in shorter, x \in S}

DetailLists == SeqsUpTo(DetailValues, MaxDetails)
Messages == {<<"h", "i">>, <<"<", "\"">>}
Payloads == {[kind |-> "string", val |-> <<"o", "k">>], [kind |-> "chan", val |-> <<>>]}
NoPayload == [kind |-> "none", val |-> <<>>]
CustomStatuses == {StatusNotFound, 418}
ErrTexts == {<<"b", "o", "o", "m">>, <<"H", "t", "t", "p", "E", "r", "r", "o", "r">>}
RPCErrText == <<"r", "p", "c", " ", "e", "r", "r", "o", "r">>
Formats == {<<"b", "a", "d">>, <<"b", "a", "d", " ", "%s">>, <<"%s", "<", "%s">>}
ArgLists == {<<>>, <<"1">>, <<"1", "\"">>}

HeaderValueLists(k) ==
    CASE k = "X-Test" -> {<<>>, <<"v1", "v2">>}
      [] k = "x-test" -> {<<"v3">>}
      [] OTHER -> {<<"text/plain">>}

\* map[string][]string values with at most n keys
HeaderMaps(n) ==
    UNION { {h \in [K -> UNION {HeaderValueLists(k) : k \in K}] :
                \A k \in K : h[k] \in HeaderValueLists(k)} :
            K \in {K \in SUBSET HeaderKeys : Cardinality(K) <= n} }

NoStatus == [ok |-> FALSE, code |-> Unknown, message |-> <<>>, details |-> <<>>]

MkErr(ctor, ho, so, st, mo, text, format, a) ==
    [ctor |-> ctor,
     headerer |-> ho.has, headers |-> ho.h,
     statusCoder |-> so.has, status |-> so.s,
     grpc |-> st.ok, code |-> st.code, message |-> st.message, details |-> st.details,
     marshaler |-> mo.has, payload |-> mo.p,
     text |-> text, format |-> format, args |-> a]

HeaderOpts == {[has |-> FALSE, h |-> NoHeader]}
              \cup {[has |-> TRUE, h |-> m] : m \in HeaderMaps(MaxHeaderKeys)}
StatusCoderOpts == {[has |-> FALSE, s |-> 0]} \cup {[has |-> TRUE, s |-> x] : x \in CustomStatuses}
MarshalerOpts == {[has |-> FALSE, p |-> NoPayload]} \cup {[has |-> TRUE, p |-> x] : x \in Payloads}
GRPCStatuses == {[ok |-> TRUE, code |-> c, message |-> m, details |-> d] :
                    c \in 0..MaxErrCode, m \in Messages, d \in DetailLists}

\* NewBadRequestError: status.Newf(codes.InvalidArgument, format, a...).Err()
NewBadRequestError(format, a) ==
    MkErr("NewBadRequestError",
          [has |-> FALSE, h |-> NoHeader], [has |-> FALSE, s |-> 0],
          [ok |-> TRUE, code |-> InvalidArgument, message |-> Sprintf(format, a), details |-> <<>>],
          [has |-> FALSE, p |-> NoPayload], RPCErrText, format, a)

\* NewHttpError with the methods of HttpError: Error, StatusCode, Headers, MarshalJSON
NewHttpError(c, payload, headers) ==
    MkErr("NewHttpError",
          [has |-> TRUE, h |-> headers], [has |-> TRUE, s |-> c], NoStatus,
          [has |-> TRUE, p |-> payload],
          <<"H", "t", "t", "p", "E", "r", "r", "o", "r">>, <<>>, <<>>)

\* HttpError.MarshalJSON
MarshalJSON(e) == jsonMarshal(e.payload)

\* the error values ErrorEncoder is called with
ErrorValues ==
    {MkErr("other", ho, so, st, mo, RPCErrText, <<>>, <<>>) :
        ho \in HeaderOpts, so \in StatusCoderOpts, st \in GRPCStatuses, mo \in MarshalerOpts}
    \cup {MkErr("other", ho, so, NoStatus, mo, t, <<>>, <<>>) :
        ho \in HeaderOpts, so \in StatusCoderOpts, mo \in MarshalerOpts, t \in ErrTexts}
    \cup {NewBadRequestError(f, a) : f \in Formats, a \in ArgLists}
    \cup {NewHttpError(c, p, h) : c \in CustomStatuses, p \in Payloads, h \in HeaderMaps(MaxHeaderKeys)}

NoError == MkErr("none", [has |-> FALSE, h |-> NoHeader], [has |-> FALSE, s |-> 0], NoStatus,
                 [has |-> FALSE, p |-> NoPayload], <<>>, <<>>, <<>>)

\* status.FromError on a non-nil error
FromError(e) ==
    IF e.grpc
    THEN [ok |-> TRUE, code |-> e.code, message |-> e.message, details |-> e.details]
    ELSE [ok |-> FALSE, code |-> Unknown, message |-> e.text, details |-> <<>>]

(***************************************************************************)
(* ErrorEncoder                                                            *)
(***************************************************************************)
NoResponse == [wroteHeader |-> FALSE, status |-> 0, header |-> NoHeader,
               wroteBody |-> FALSE, body |-> <<>>]

\* line 38
WithContentType_NoCharset(h) == HeaderSet(h, "Content-Type", "application/json")

WithContentType(h) == HeaderSet(h, "Content-Type", JSONContentType)

\* lines 44-47
InitialCode(e) == IF e.statusCoder THEN e.status ELSE StatusInternalServerError

\* lines 48-67 with the status error's message taken from err.Error()
EncodeBody_ErrorText(e, c) ==
    LET st == FromError(e)
    IN  IF st.ok
        THEN IF Len(st.details) > 0
             THEN IF st.details[1].kind # "message"
                  THEN [panic |-> TRUE, code |-> httpStatusFromCode(st.code), body |-> <<>>]
                  ELSE [panic |-> FALSE, code |-> httpStatusFromCode(st.code),
                        body |-> protojsonMarshal([UseProtoNames |-> TRUE], st.details[1]).bytes]
             ELSE [panic |-> FALSE, code |-> httpStatusFromCode(st.code),
                   body |-> jsonMarshalErrorWrapper(e.text)]
        ELSE IF e.marshaler
             THEN [panic |-> FALSE, code |-> c, body |-> MarshalJSON(e).bytes]
             ELSE [panic |-> FALSE, code |-> c, body |-> jsonMarshalErrorWrapper(e.text)]

\* lines 48-67 with the custom status kept when the error has one
EncodeBody_CustomWins(e, c) ==
    LET st == FromError(e)
        sc == IF e.statusCoder THEN c ELSE httpStatusFromCode(st.code)
    IN  IF st.ok
        THEN IF Len(st.details) > 0
             THEN IF st.details[1].kind # "message"
                  THEN [panic |-> TRUE, code |-> sc, body |-> <<>>]
                  ELSE [panic |-> FALSE, code |-> sc,
                        body |-> protojsonMarshal([UseProtoNames |-> TRUE], st.details[1]).bytes]
             ELSE [panic |-> FALSE, code |-> sc, body |-> jsonMarshalErrorWrapper(st.message)]
        ELSE IF e.marshaler
             THEN [panic |-> FALSE, code |-> c, body |-> MarshalJSON(e).bytes]
             ELSE [panic |-> FALSE, code |-> c, body |-> jsonMarshalErrorWrapper(e.text)]

\* lines 48-67 with the marshaler's output used only when marshaling succeeds
EncodeBody_CheckedMarshal(e, c) ==
    LET st == FromError(e)
    IN  IF st.ok
        THEN IF Len(st.details) > 0
             THEN IF st.details[1].kind # "message"
                  THEN [panic |-> TRUE, code |-> httpStatusFromCode(st.code), body |-> <<>>]
                  ELSE [panic |-> FALSE, code |-> httpStatusFromCode(st.code),
                        body |-> protojsonMarshal([UseProtoNames |-> TRUE], st.details[1]).bytes]
             ELSE [panic |-> FALSE, code |-> httpStatusFromCode(st.code),
                   body |-> jsonMarshalErrorWrapper(st.message)]
        ELSE [panic |-> FALSE, code |-> c,
              body |-> IF e.marshaler /\ MarshalJSON(e).ok
                       THEN MarshalJSON(e).bytes
                       ELSE jsonMarshalErrorWrapper(e.text)]

\* lines 48-67: the code and body ErrorEncoder ends with, or the panic of the
\* unchecked type assertion e.Details()[0].(proto.Message)
EncodeBody(e, c) ==
    LET st == FromError(e)
    IN  IF st.ok
        THEN IF Len(st.details) > 0
             THEN IF st.details[1].kind # "message"
                  THEN [panic |-> TRUE, code |-> httpStatusFromCode(st.code), body |-> <<>>]
                  ELSE [panic |-> FALSE, code |-> httpStatusFromCode(st.code),
                        body |-> protojsonMarshal([UseProtoNames |-> TRUE], st.details[1]).bytes]
             ELSE [panic |-> FALSE, code |-> httpStatusFromCode(st.code),
                   body |-> jsonMarshalErrorWrapper(st.message)]
        ELSE IF e.marshaler
             THEN [panic |-> FALSE, code |-> c, body |-> MarshalJSON(e).bytes]
             ELSE [panic |-> FALSE, code |-> c,
                   body |-> IF e.marshaler /\ MarshalJSON(e).ok
                            THEN MarshalJSON(e).bytes
                            ELSE jsonMarshalErrorWrapper(e.text)]

\* the transport calls ErrorEncoder(ctx, err, w) with a fresh ResponseWriter
Invoke ==
    /\ pc = "idle"
    /\ \E e \in ErrorValues : err' = e
    /\ pc' = "set_content_type"
    /\ UNCHANGED <<pending, wHeader, code, body, sent, log, mdVars, codeVars>>

\* line 38, and lines 39-40 up to the range statement
SetContentType ==
    /\ pc = "set_content_type"
    /\ wHeader' = WithContentType(wHeader)
    /\ log' = Append(log, "Header.Set")
    /\ pending' = IF err.headerer THEN DOMAIN err.headers ELSE {}
    /\ pc' = "headers"
    /\ UNCHANGED <<err, code, body, sent, mdVars, codeVars>>

\* line 41, one iteration of the range over headerer.Headers() (map order)
CopyHeader(k) ==
    /\ pc = "headers"
    /\ k \in pending
    /\ wHeader' = HeaderSet(wHeader, k, HeaderGet(err.headers, k))
    /\ log' = Append(log, "Header.Set")
    /\ pending' = pending \ {k}
    /\ UNCHANGED <<pc, err, code, body, sent, mdVars, codeVars>>

\* lines 44-47, once the range is over
DetermineStatus ==
    /\ pc = "headers"
    /\ pending = {}
    /\ code' = InitialCode(err)
    /\ pc' = "body"
    /\ UNCHANGED <<err, pending, wHeader, body, sent, log, mdVars, codeVars>>

\* lines 48-67
DetermineBody ==
    /\ pc = "body"
    /\ LET r == EncodeBody(err, code)
       IN  /\ code' = r.code
           /\ body' = r.body
           /\ pc' = IF r.panic THEN "panic" ELSE "write_header"
    /\ UNCHANGED <<err, pending, wHeader, sent, log, mdVars, codeVars>>

\* line 69
WriteHeader ==
    /\ pc = "write_header"
    /\ sent' = [sent EXCEPT !.wroteHeader = TRUE, !.status = code, !.header = wHeader]
    /\ log' = Append(log, "WriteHeader")
    /\ pc' = "write"
    /\ UNCHANGED <<err, pending, wHeader, code, body, mdVars, codeVars>>

\* line 70 and the return
Write ==
    /\ pc = "write"
    /\ sent' = [sent EXCEPT !.wroteBody = TRUE, !.body = body]
    /\ log' = Append(log, "Write")
    /\ pc' = "done"
    /\ UNCHANGED <<err, pending, wHeader, code, body, mdVars, codeVars>>

(***************************************************************************)
(* MetadataToContext                                                       *)
(***************************************************************************)
MDKeys == {"user-id", "empty-key", "trace-id"}
MDValues == {"42", "43"}

\* a []string: the nil slice, or a slice of 0..MaxMDVals values
MDSlices == {[isNil |-> TRUE, elems |-> <<>>]}
            \cup {[isNil |-> FALSE, elems |-> s] : s \in SeqsUpTo(MDValues, MaxMDVals)}

\* metadata.MD values
MDMaps == UNION {[K -> MDSlices] : K \in SUBSET MDKeys}

\* contexts the helper is given: chains of context.WithValue pairs
BaseContexts == {<<>>, << <<"user-id", "7">> >>}

\* ctx.Value(request.ContextKey(k)): the newest pair of the chain under k
RECURSIVE ctxValue(_, _)
ctxValue(c, k) ==
    IF c = <<>> THEN [found |-> FALSE, val |-> ""]
    ELSE IF c[Len(c)][1] = k THEN [found |-> TRUE, val |-> c[Len(c)][2]]
    ELSE ctxValue(SubSeq(c, 1, Len(c) - 1), k)

\* lines 14-17: the body of the range loop for key k with value v; v[0] on an
\* empty non-nil slice is an index-out-of-range panic
RangeBody(c, k, v) ==
    IF ~v.isNil
    THEN IF Len(v.elems) = 0
         THEN [panic |-> TRUE, ctx |-> c]
         ELSE [panic |-> FALSE, ctx |-> Append(c, <<k, v.elems[1]>>)]
    ELSE [panic |-> FALSE, ctx |-> c]

\* a caller invokes MetadataToContext(ctx, md)
MDCall ==
    /\ mdpc = "idle"
    /\ \E c \in BaseContexts, m \in MDMaps :
          /\ ctx0' = c
          /\ ctx' = c
          /\ md' = m
          /\ mdPending' = DOMAIN m
    /\ mdpc' = "range"
    /\ UNCHANGED <<encVars, codeVars>>

\* lines 13-18, one iteration (map order)
MDRange(k) ==
    /\ mdpc = "range"
    /\ k \in mdPending
    /\ LET r == RangeBody(ctx, k, md[k])
       IN  /\ ctx' = r.ctx
           /\ mdpc' = IF r.panic THEN "panic" ELSE "range"
    /\ mdPending' = mdPending \ {k}
    /\ UNCHANGED <<md, ctx0, encVars, codeVars>>

\* line 20
MDReturn ==
    /\ mdpc = "range"
    /\ mdPending = {}
    /\ mdpc' = "done"
    /\ UNCHANGED <<md, mdPending, ctx0, ctx, encVars, codeVars>>

Init ==
    /\ pc = "idle"
    /\ err = NoError
    /\ pending = {}
    /\ wHeader = NoHeader
    /\ code = 0
    /\ body = <<>>
    /\ sent = NoResponse
    /\ log = <<>>
    /\ mdpc = "idle"
    /\ md = [k \in {} |-> <<>>]
    /\ mdPending = {}
    /\ ctx0 = <<>>
    /\ ctx = <<>>
    /\ arg = -1
    /\ ret = 0

Next ==
    \/ Invoke
    \/ SetContentType
    \/ \E k \in HeaderKeys : CopyHeader(k)
    \/ DetermineStatus
    \/ DetermineBody
    \/ WriteHeader
    \/ Write

Spec == Init /\ [][Next]_vars

NextCode == \E c \in CodeSpace : ApplyStatusFromCode(c)

SpecCode == Init /\ [][NextCode]_vars

NextMD ==
    \/ MDCall
    \/ \E k \in MDKeys : MDRange(k)
    \/ MDReturn

SpecMD == Init /\ [][NextMD]_vars

(***************************************************************************)
(* Properties                                                              *)
(***************************************************************************)
\* the StatusCode -> HTTP status table of the specification (section 4.1)
TableStatus(c) ==
    IF c = OK THEN 200
    ELSE IF c = Canceled THEN 408
    ELSE IF c \in {InvalidArgument, FailedPrecondition, OutOfRange} THEN 400
    ELSE IF c = DeadlineExceeded THEN 504
    ELSE IF c = NotFound THEN 404
    ELSE IF c \in {AlreadyExists, Aborted} THEN 409
    ELSE IF c = PermissionDenied THEN 403
    ELSE IF c = Unauthenticated THEN 401
    ELSE IF c = ResourceExhausted THEN 429
    ELSE IF c = Unimplemented THEN 501
    ELSE IF c = Unavailable THEN 503
    ELSE 500

Enumeration == {OK, Canceled, Unknown, InvalidArgument, DeadlineExceeded, NotFound,
                AlreadyExists, PermissionDenied, Unauthenticated, ResourceExhausted,
                FailedPrecondition, Aborted, OutOfRange, Unimplemented, Internal,
                Unavailable, DataLoss}

Returned == pc = "done"
Ended == pc \in {"done", "panic"}
HasContentTypeKey(e) ==
    e.headerer /\ \E k \in DOMAIN e.headers : CanonicalMIMEHeaderKey(k) = "Content-Type"

\* C1: httpStatusFromCode returns, for each of the 17 enumerated codes, the HTTP
\* status of the table, and 500 for every code outside the enumeration.
C1_StatusTable ==
    arg # -1 =>
        /\ Cardinality(Enumeration) = 17
        /\ arg \in Enumeration => ret = TableStatus(arg)
        /\ arg \notin Enumeration => ret = 500

C1_Witness == arg \notin Enumeration /\ arg # -1 /\ ret = 500

\* C2: a status error with code c and message m, no details, no custom status and
\* no headers is answered with the table's status for c and the body
\* {"message": m}; an error of NewBadRequestError(format, args) with 400 and
\* the formatted message.
C2_CodeOnly ==
    (Returned /\ err.grpc /\ err.details = <<>> /\ ~err.statusCoder /\ ~err.headerer) =>
        /\ err.code \in Enumeration => sent.status = TableStatus(err.code)
        /\ sent.wroteBody
        /\ sent.body = <<"{", "\"message\"", ":">> \o jsonString(err.message) \o <<"}">>
        /\ err.ctor = "NewBadRequestError" =>
              /\ sent.status = 400
              /\ err.message = Sprintf(err.format, err.args)

C2_Witness ==
    /\ Returned
    /\ err.ctor = "NewBadRequestError"
    /\ err.format = <<"b", "a", "d", " ", "%s">>
    /\ err.args = <<"1">>
    /\ sent.status = 400
    /\ sent.body = <<"{", "\"message\"", ":", "\"", "b", "a", "d", " ", "1", "\"", "}">>

\* C3 (as claimed): for every status error with one or more details the body
\* written is the JSON encoding of the first detail, field names verbatim; the
\* {"message": ...} form is used only when there are no details.
C3_FirstDetail ==
    (Ended /\ err.grpc) =>
        /\ Len(err.details) > 0 =>
              /\ sent.wroteBody
              /\ sent.body = protojsonMarshal([UseProtoNames |-> TRUE], err.details[1]).bytes
        /\ (sent.wroteBody /\ sent.body = jsonMarshalErrorWrapper(err.message)) =>
              err.details = <<>>

C5_ContentTypeAlways ==
    Returned => sent.header["Content-Type"] = <<JSONContentType>>

\* C5 (amended): after ErrorEncoder returns the response's Content-Type is the
\* JSON content type unless the error's header set has a key whose canonical
\* form is Content-Type; then it is what Headers().Get gives for that key.
C5_ContentTypeUnlessOverridden ==
    Returned =>
        sent.header["Content-Type"] =
            (IF HasContentTypeKey(err) THEN <<HeaderGet(err.headers, "Content-Type")>>
             ELSE <<JSONContentType>>)

C5_Witness ==
    /\ Returned
    /\ err.headerer
    /\ DOMAIN err.headers = {"X-Test", "x-test"}
    /\ sent.header["Content-Type"] = <<JSONContentType>>

\* C6 (as claimed): every key of the error's header set that has a value reaches
\* the response with the first value the error holds under that key.
C6_HeadersCopied ==
    (Returned /\ err.headerer) =>
        \A k \in DOMAIN err.headers :
            Len(err.headers[k]) > 0 => HeaderGet(sent.header, k) = err.headers[k][1]

\* C7 (as claimed): MetadataToContext returns normally; each key with a
\* non-empty value list maps to the list's first value, and no entry is added
\* for a key whose list is empty or absent.
C7_MetadataToContext ==
    mdpc \in {"done", "panic"} =>
        /\ mdpc = "done"
        /\ \A k \in MDKeys :
              IF k \in DOMAIN md /\ Len(md[k].elems) > 0
              THEN ctxValue(ctx, k) = [found |-> TRUE, val |-> md[k].elems[1]]
              ELSE \A i \in 1..Len(ctx) : ctx[i][1] = k => i <= Len(ctx0)

\* C8 (as claimed): ErrorEncoder never raises; when a detail or payload cannot be
\* marshaled the status and headers are written with an empty body.
C8_NeverRaises ==
    /\ pc # "panic"
    /\ (Returned /\ err.grpc /\ Len(err.details) > 0 /\ ~err.details[1].marshals) =>
          sent.wroteHeader /\ sent.wroteBody /\ sent.body = <<>>
    /\ (Returned /\ ~err.grpc /\ err.marshaler /\ ~MarshalJSON(err).ok) =>
          sent.wroteHeader /\ sent.wroteBody /\ sent.body = <<>>

\* C9 (as claimed): every invocation makes its header changes first, then writes
\* the status exactly once, then the body exactly once, and nothing after.
C9_OneResponse ==
    Ended =>
        /\ Len(log) >= 2
        /\ log[Len(log)] = "Write"
        /\ log[Len(log) - 1] = "WriteHeader"
        /\ \A i \in 1..(Len(log) - 2) : log[i] = "Header.Set"

====
